---- MODULE Spec2Model ----
(***************************************************************************)
(* Sales dashboard: spreadsheet import (handleFileUpload, App's            *)
(* handleImportData), the filter state of SalesDashboard, and the          *)
(* aggregation memo processedData with the detail table's render; the      *)
(* App with its two tabs, the form of DataInput, and fetchData and         *)
(* handleSaveData on the remote and on the local backend.                  *)
(*                                                                         *)
(* Conventions of the model                                                *)
(*  - time is counted in HOURS since the Unix epoch (the source counts     *)
(*    milliseconds; 86400000 ms = DAY = 24 h), so that TLC's integers      *)
(*    hold the timestamps of 2024;                                         *)
(*  - a JavaScript string that is formatted, parsed or compared is a       *)
(*    sequence of character codes ("2024-W1" = <<50,48,50,52,45,87,49>>);  *)
(*    names that are only compared for equality or used as object keys     *)
(*    (category, product, column names) are TLA+ strings;                  *)
(*  - the fields 日期 類別 品名 數量 銷售金額 of SalesData are written     *)
(*    date, category, productName, quantity, amount.                       *)
(***************************************************************************)
EXTENDS Integers, Sequences, FiniteSets, TLC

VARIABLES
    tz,                 \* local time zone of the browser: local = UTC + tz hours
    now,                \* Date.now(), non-decreasing
    isScriptLoaded,     \* SalesDashboard state: the XLSX script has loaded
    readers,            \* FileReaders in flight: the data captured by each onload closure,
                        \* and whether the dashboard that started it is still mounted
    sheet,              \* the rows `data` of the reader.onload that has just run, else <<>>
    externalData,       \* App state `data`, the prop externalData
    dateRange,          \* SalesDashboard state
    viewMode,           \* SalesDashboard state
    selectedProduct,    \* SalesDashboard state
    isGroupByCategory,  \* SalesDashboard state
    errorMsg,           \* SalesDashboard state
    processedData,      \* the useMemo value, as the last render left it
    xlsx,               \* the XLSX script element: "absent", "loading" or "loaded"
    remote,             \* GOOGLE_SCRIPT_URL is set: the remote backend is selected
    activeTab,          \* App state: "input" or "dashboard"
    isLoading,          \* App state
    localStore,         \* localStorage item morandi_sales_data
    server,             \* the records the remote endpoint holds
    formData,           \* DataInput state
    notification,       \* DataInput state
    tasks,              \* the calls of fetchData and handleSaveData that are suspended at an
                        \* await, and the timers of the form
    nextUuid            \* the number of ids crypto.randomUUID has handed out

\* the state of App and DataInput that the dashboard's handlers leave alone
appVars == <<remote, activeTab, isLoading, localStore, server, formData, notification, tasks,
             nextUuid>>

vars == <<tz, now, isScriptLoaded, readers, sheet, externalData, dateRange, viewMode,
          selectedProduct, isGroupByCategory, errorMsg, processedData, xlsx, appVars>>

----------------------------------------------------------------------------
(* Bounds of the model *)

MaxRecords == 2     \* records held by the App
MaxBatch == 2       \* rows of one imported sheet
MaxNow == 1         \* clock values 0..MaxNow
MaxReaders == 1     \* file reads in flight
MaxSaves == 2       \* entries built by handleSaveData

(* Program constants *)

DAY == 24               \* 86400000 ms, in hours
SERIAL_EPOCH == 25569   \* spreadsheet serial number of 1970-01-01

----------------------------------------------------------------------------
(* JavaScript strings as sequences of character codes *)

Digit(d) == 48 + d
IsDigit(c) == c >= 48 /\ c <= 57
HyphenStr == <<45>>
SlashCode == 47
HyphenCode == 45
WeekSep == <<45, 87>>                       \* "-W"
EmptyStr == <<>>

RECURSIVE ToDigits(_)
\* String(n) for an integer n >= 0
ToDigits(n) == IF n < 10 THEN <<Digit(n)>> ELSE ToDigits(n \div 10) \o <<Digit(n % 10)>>

RECURSIVE PadStart(_, _)
\* s.padStart(w, '0')
PadStart(s, w) == IF Len(s) >= w THEN s ELSE PadStart(<<Digit(0)>> \o s, w)

RECURSIVE DigitsValue(_)
\* the number written by a sequence of digit codes
DigitsValue(s) ==
    IF s = <<>> THEN 0 ELSE 10 * DigitsValue(SubSeq(s, 1, Len(s) - 1)) + (s[Len(s)] - 48)

AllDigits(s) == \A i \in 1..Len(s) : IsDigit(s[i])

RECURSIVE LocaleLess(_, _)
\* a.localeCompare(b) < 0 for strings of digits, '-', '/' and 'W': the first
\* differing character decides, a proper prefix comes first
LocaleLess(a, b) ==
    IF b = <<>> THEN FALSE
    ELSE IF a = <<>> THEN TRUE
    ELSE IF a[1] # b[1] THEN a[1] < b[1]
    ELSE LocaleLess(Tail(a), Tail(b))

----------------------------------------------------------------------------
(* The Date object: civil calendar (proleptic Gregorian), UTC and local *)

\* days since 1970-01-01 of the civil date y-m-d
DaysFromCivil(y, m, d) ==
    LET yy  == IF m <= 2 THEN y - 1 ELSE y
        era == yy \div 400
        yoe == yy - era * 400
        mp  == IF m > 2 THEN m - 3 ELSE m + 9
        doy == (153 * mp + 2) \div 5 + d - 1
        doe == yoe * 365 + yoe \div 4 - yoe \div 100 + doy
    IN  era * 146097 + doe - 719468

\* the civil date of a day number
CivilFromDays(z) ==
    LET zz  == z + 719468
        era == zz \div 146097
        doe == zz - era * 146097
        yoe == (doe - doe \div 1460 + doe \div 36524 - doe \div 146096) \div 365
        doy == doe - (365 * yoe + yoe \div 4 - yoe \div 100)
        mp  == (5 * doy + 2) \div 153
        d   == doy - (153 * mp + 2) \div 5 + 1
        m   == IF mp < 10 THEN mp + 3 ELSE mp - 9
        y   == yoe + era * 400 + (IF m <= 2 THEN 1 ELSE 0)
    IN  [year |-> y, month |-> m, day |-> d]

IsLeap(y) == (y % 4 = 0 /\ y % 100 # 0) \/ y % 400 = 0

DaysInMonth(y, m) ==
    IF m = 2 THEN (IF IsLeap(y) THEN 29 ELSE 28)
    ELSE IF m \in {4, 6, 9, 11} THEN 30 ELSE 31

\* the UTC day number of a time value, Math.floor(t / 86400000)
UTCDayOf(t) == t \div DAY

\* the local day number of a time value
LocalDayOf(t, zone) == (t + zone) \div DAY

\* getUTCDay() of a day number: 0 = Sunday; 1970-01-01 was a Thursday
WeekDayOf(dayNo) == (dayNo + 4) % 7

\* A Date: valid = FALSE is the Invalid Date, whose time value is NaN
InvalidDate == [valid |-> FALSE, time |-> 0]
DateOf(t) == [valid |-> TRUE, time |-> t]

\* "YYYY?MM?DD" with separator code sep, naming a day that exists
IsYMD(s, sep) ==
    /\ Len(s) = 10
    /\ s[5] = sep /\ s[8] = sep
    /\ AllDigits(SubSeq(s, 1, 4)) /\ AllDigits(SubSeq(s, 6, 7)) /\ AllDigits(SubSeq(s, 9, 10))
    /\ LET y == DigitsValue(SubSeq(s, 1, 4))
           m == DigitsValue(SubSeq(s, 6, 7))
           d == DigitsValue(SubSeq(s, 9, 10))
       IN  m >= 1 /\ m <= 12 /\ d >= 1 /\ d <= DaysInMonth(y, m)

YMDDay(s) ==
    DaysFromCivil(DigitsValue(SubSeq(s, 1, 4)), DigitsValue(SubSeq(s, 6, 7)),
                  DigitsValue(SubSeq(s, 9, 10)))

\* new Date(str): the date-only ISO form YYYY-MM-DD is UTC midnight, the form
\* YYYY/MM/DD is local midnight, any other string of the model is Invalid Date
NewDateFromString(s, zone) ==
    IF IsYMD(s, HyphenCode) THEN DateOf(YMDDay(s) * DAY)
    ELSE IF IsYMD(s, SlashCode) THEN DateOf(YMDDay(s) * DAY - zone)
    ELSE InvalidDate

\* date.toISOString().split('T')[0], for the years 0..9999
ISODateString(t) ==
    LET c == CivilFromDays(UTCDayOf(t))
    IN  PadStart(ToDigits(c.year), 4) \o HyphenStr \o PadStart(ToDigits(c.month), 2)
            \o HyphenStr \o PadStart(ToDigits(c.day), 2)

----------------------------------------------------------------------------
(* Helper functions of the dashboard *)

\* getWeekString(new Date(t))
getWeekString(t, zone) ==
    LET d0      == LocalDayOf(t, zone)      \* Date.UTC(local year, month, date)
        dayNum  == IF WeekDayOf(d0) = 0 THEN 7 ELSE WeekDayOf(d0)
        d       == d0 + 4 - dayNum
        year    == CivilFromDays(d).year
        jan1    == DaysFromCivil(year, 1, 1)
        weekNo  == ((d - jan1) + 1 + 6) \div 7  \* Math.ceil((days + 1) / 7)
    IN  ToDigits(year) \o WeekSep \o ToDigits(weekNo)

\* getMonthString(new Date(t))
getMonthString(t, zone) ==
    LET c == CivilFromDays(LocalDayOf(t, zone))
    IN  ToDigits(c.year) \o HyphenStr \o PadStart(ToDigits(c.month), 2)

----------------------------------------------------------------------------
(* Spreadsheet cells and rows, as XLSX.utils.sheet_to_json delivers them *)

NumCell(n) == [type |-> "number", num |-> n, str |-> <<>>]
StrCell(s) == [type |-> "string", num |-> 0, str |-> s]
Undefined  == [type |-> "undefined", num |-> 0, str |-> <<>>]

\* row[key]: a row is a function from the columns it has to cells (the date,
\* quantity and amount cells) or names (the category and product cells)
CellOf(row, key) == IF key \in DOMAIN row THEN row[key] ELSE Undefined

\* String(row[key]) of a name cell
NameOf(row, key) == IF key \in DOMAIN row THEN row[key] ELSE "undefined"

\* Number(cell) || 0
NumberOrZero(cell) ==
    IF cell.type = "number" THEN cell.num
    ELSE IF cell.type = "string" /\ AllDigits(cell.str) THEN DigitsValue(cell.str)
    ELSE 0                                  \* NaN || 0

requiredKeys == <<"date", "category", "productName", "quantity", "amount">>

\* requiredKeys.filter(key => !(key in firstRow))
MissingKeys(firstRow) == SelectSeq(requiredKeys, LAMBDA key : key \notin DOMAIN firstRow)

\* the callback of data.map: one row and its index to one SalesData
FormatRow(row, index, clock, zone) ==
    LET cell    == CellOf(row, "date")
        dateObj == IF cell.type = "number"
                     THEN DateOf((cell.num - SERIAL_EPOCH) * DAY)
                     ELSE IF cell.type = "string" THEN NewDateFromString(cell.str, zone)
                     ELSE InvalidDate
        ok      == cell.type = "number" \/ dateObj.valid
    IN  [ id          |-> <<"excel", clock, index>>,
          date        |-> IF ok THEN ISODateString(dateObj.time) ELSE cell.str,
          category    |-> NameOf(row, "category"),
          productName |-> NameOf(row, "productName"),
          quantity    |-> NumberOrZero(CellOf(row, "quantity")),
          amount      |-> NumberOrZero(CellOf(row, "amount")),
          timestamp   |-> IF ok THEN dateObj.time ELSE 0 ]

\* data.map(...).filter(item => item.timestamp > 0)
FormatRows(rows, clock, zone) ==
    SelectSeq([i \in 1..Len(rows) |-> FormatRow(rows[i], i - 1, clock, zone)],
              LAMBDA item : item.timestamp > 0)

----------------------------------------------------------------------------
(* Aggregation: the useMemo bodies of SalesDashboard *)

allProducts(data) == {data[i].productName : i \in DOMAIN data}
allCategories(data) == {data[i].category : i \in DOMAIN data}

\* Property names that are canonical array indices are enumerated first, in
\* ascending numeric order, by Object.entries; the others in insertion order.
ArrayIndexNames == {"7"}
ArrayIndexValue(name) == CASE name = "7" -> 7 [] OTHER -> 0

\* obj[key] || 0 of an object held as a function
GetOrZero(obj, key) == IF key \in DOMAIN obj THEN obj[key] ELSE 0

\* obj[key] = value
Put(obj, key, value) == [k \in DOMAIN obj \cup {key} |-> IF k = key THEN value ELSE obj[k]]

\* A Record<string, number> is held as the sequence of its [name, value]
\* entries in insertion order.
IndexOfName(entries, name) ==
    IF \E i \in DOMAIN entries : entries[i].name = name
      THEN CHOOSE i \in DOMAIN entries : entries[i].name = name
      ELSE 0

\* map[name] = (map[name] || 0) + value
AddTo(entries, name, value) ==
    LET i == IndexOfName(entries, name)
    IN  IF i = 0 THEN Append(entries, [name |-> name, value |-> 0 + value])
        ELSE [entries EXCEPT ![i].value = @ + value]

RECURSIVE SumBy(_, _)
\* forEach(d => map[key(d)] = (map[key(d)] || 0) + d.amount), from the empty object
SumBy(records, field) ==
    IF records = <<>> THEN <<>>
    ELSE LET n == Len(records)
         IN  AddTo(SumBy(SubSeq(records, 1, n - 1), field), records[n][field], records[n].amount)

RECURSIVE InsertByTimestamp(_, _, _)
\* insert e after every element the comparator does not put after it; the
\* comparator is sign * (a.timestamp - b.timestamp)
InsertByTimestamp(sorted, e, sign) ==
    IF sorted = <<>> THEN <<e>>
    ELSE IF sign * (e.timestamp - Head(sorted).timestamp) < 0 THEN <<e>> \o sorted
    ELSE <<Head(sorted)>> \o InsertByTimestamp(Tail(sorted), e, sign)

RECURSIVE SortByTimestamp(_, _)
\* sort((a, b) => a.timestamp - b.timestamp) for sign 1, b - a for sign -1,
\* on a copy; Array.prototype.sort is stable
SortByTimestamp(s, sign) ==
    IF s = <<>> THEN <<>>
    ELSE InsertByTimestamp(SortByTimestamp(SubSeq(s, 1, Len(s) - 1), sign), s[Len(s)], sign)

RECURSIVE InsertByIndex(_, _)
InsertByIndex(sorted, e) ==
    IF sorted = <<>> THEN <<e>>
    ELSE IF ArrayIndexValue(e.name) < ArrayIndexValue(Head(sorted).name) THEN <<e>> \o sorted
    ELSE <<Head(sorted)>> \o InsertByIndex(Tail(sorted), e)

RECURSIVE SortByIndex(_)
\* the array-index properties in ascending numeric order
SortByIndex(s) ==
    IF s = <<>> THEN <<>>
    ELSE InsertByIndex(SortByIndex(SubSeq(s, 1, Len(s) - 1)), s[Len(s)])

\* Object.entries(obj)
ObjectEntries(entries) ==
    SortByIndex(SelectSeq(entries, LAMBDA e : e.name \in ArrayIndexNames))
        \o SelectSeq(entries, LAMBDA e : e.name \notin ArrayIndexNames)

\* totalSales reduced over the quantity field
SumField_Quantity(records, field) ==
    LET partial[n \in 0..Len(records)] ==
            IF n = 0 THEN 0 ELSE partial[n - 1] + records[n].quantity
    IN  partial[Len(records)]

RECURSIVE SumField(_, _)
\* reduce((acc, curr) => acc + curr[field], 0)
SumField(records, field) ==
    IF records = <<>> THEN 0
    ELSE SumField(SubSeq(records, 1, Len(records) - 1), field) + records[Len(records)][field]

\* the end of the range compared with <=
FilterRecords_InclusiveEnd(data, startTs, endTs, product) ==
    SelectSeq(data, LAMBDA d :
        /\ d.timestamp >= startTs /\ d.timestamp <= endTs + DAY
        /\ (product = "all" \/ d.productName = product))

\* externalData.filter(d => dateMatch && productMatch)
FilterRecords(data, startTs, endTs, product) ==
    SelectSeq(data, LAMBDA d :
        LET currentTs    == d.timestamp
            bufferEnd    == endTs + DAY
            dateMatch    == currentTs >= startTs /\ currentTs < bufferEnd
            productMatch == product = "all" \/ d.productName = product
        IN  dateMatch /\ productMatch)

RECURSIVE TopOf(_, _, _)
\* the forEach over Object.entries(productSales): [maxSale, topProduct]
TopOf(entries, maxSale, topProduct) ==
    IF entries = <<>> THEN topProduct
    ELSE IF Head(entries).value > maxSale
           THEN TopOf(Tail(entries), Head(entries).value, Head(entries).name)
           ELSE TopOf(Tail(entries), maxSale, topProduct)

TopProduct(filtered) == TopOf(ObjectEntries(SumBy(filtered, "productName")), 0, "-")

\* the bucket key of a record
BucketKey(d, mode, zone) ==
    IF mode = "week" THEN getWeekString(d.timestamp, zone)
    ELSE IF mode = "month" THEN getMonthString(d.timestamp, zone)
    ELSE d.date

IndexOfBucket(buckets, key) ==
    IF \E i \in DOMAIN buckets : buckets[i]["date"] = key
      THEN CHOOSE i \in DOMAIN buckets : buckets[i]["date"] = key
      ELSE 0

\* trendMap[key] = { date: key, amount: 0, qty: 0 } and the zero entry of
\* every category; a bucket is one object, so a category shares the name
\* space of the fields date, amount and qty
NewBucket(key, groupBy, cats) ==
    LET fresh == [date |-> key, amount |-> 0, qty |-> 0]
    IN  IF groupBy
          THEN [k \in DOMAIN fresh \cup cats |-> IF k \in cats THEN 0 ELSE fresh[k]]
          ELSE fresh

\* the three updates of one record to its bucket
AddToBucket(bucket, d, groupBy) ==
    LET b1 == Put(bucket, "amount", bucket["amount"] + d.amount)
        b2 == Put(b1, "qty", b1["qty"] + d.quantity)
    IN  IF groupBy THEN Put(b2, d.category, GetOrZero(b2, d.category) + d.amount) ELSE b2

RECURSIVE TrendMap(_, _, _, _, _)
\* trendMap after the forEach over filtered, its buckets in insertion order
TrendMap(filtered, mode, groupBy, cats, zone) ==
    IF filtered = <<>> THEN <<>>
    ELSE LET n    == Len(filtered)
             d    == filtered[n]
             prev == TrendMap(SubSeq(filtered, 1, n - 1), mode, groupBy, cats, zone)
             key  == BucketKey(d, mode, zone)
             i    == IndexOfBucket(prev, key)
         IN  IF i = 0
               THEN Append(prev, AddToBucket(NewBucket(key, groupBy, cats), d, groupBy))
               ELSE [prev EXCEPT ![i] = AddToBucket(@, d, groupBy)]

RECURSIVE InsertByDate(_, _)
InsertByDate(sorted, e) ==
    IF sorted = <<>> THEN <<e>>
    ELSE IF LocaleLess(e["date"], Head(sorted)["date"]) THEN <<e>> \o sorted
    ELSE <<Head(sorted)>> \o InsertByDate(Tail(sorted), e)

RECURSIVE SortByDate(_)
\* sort((a, b) => a.date.localeCompare(b.date))
SortByDate(s) ==
    IF s = <<>> THEN <<>>
    ELSE InsertByDate(SortByDate(SubSeq(s, 1, Len(s) - 1)), s[Len(s)])

\* Object.values(trendMap).sort((a, b) => a.date.localeCompare(b.date))
TrendData(filtered, mode, groupBy, cats, zone) ==
    SortByDate(TrendMap(filtered, mode, groupBy, cats, zone))

\* Object.entries(categoryMap).map(([name, value]) => ({ name, value }))
CategoryData(filtered) == ObjectEntries(SumBy(filtered, "category"))

\* useMemo returns null: nothing to aggregate
NullView == [isNull |-> TRUE]

\* the empty case without the '-' of topProduct
EmptyView_NoSentinel ==
    [ isNull |-> FALSE, filteredRaw |-> <<>>, totalSales |-> 0, totalQty |-> 0,
      topProduct |-> "", trendData |-> <<>>, categoryData |-> <<>> ]

\* the object returned when filtered.length === 0
EmptyView ==
    [ isNull |-> FALSE, filteredRaw |-> <<>>, totalSales |-> 0, totalQty |-> 0,
      topProduct |-> "-", trendData |-> <<>>, categoryData |-> <<>> ]

\* the body of the processedData memo
Aggregate(data, range, mode, product, groupBy, cats, zone) ==
    IF Len(data) = 0 THEN NullView
    ELSE IF range.start = EmptyStr \/ range.end = EmptyStr THEN NullView
    ELSE LET start == NewDateFromString(range.start, zone)
             end   == NewDateFromString(range.end, zone)
         IN  IF ~start.valid \/ ~end.valid THEN NullView
             ELSE LET filtered == FilterRecords(data, start.time, end.time, product)
                  IN  IF Len(filtered) = 0 THEN EmptyView
                      ELSE [ isNull       |-> FALSE,
                             filteredRaw  |-> filtered,
                             totalSales   |-> SumField(filtered, "amount"),
                             totalQty     |-> SumField(filtered, "quantity"),
                             topProduct   |-> TopProduct(filtered),
                             trendData    |-> TrendData(filtered, mode, groupBy, cats, zone),
                             categoryData |-> CategoryData(filtered) ]

----------------------------------------------------------------------------
(* Rendering *)

\* the detail table sorting the prop externalData as well
RenderDetailTable_SortsProps(props, memo) ==
    IF ~memo.isNull /\ Len(memo.filteredRaw) > 0
      THEN [ externalData  |-> SortByTimestamp(props, 0 - 1),
             processedData |-> [memo EXCEPT !.filteredRaw = SortByTimestamp(@, 0 - 1)] ]
      ELSE [ externalData |-> props, processedData |-> memo ]

\* The JSX of the detail table sorts processedData.filteredRaw in place,
\* newest first, when there is something to show. The render holds two
\* arrays, the prop externalData and the memo's filteredRaw (a fresh array
\* made by filter); the result gives both as the render leaves them.
RenderDetailTable(props, memo) ==
    [ externalData  |-> props,
      processedData |->
          IF ~memo.isNull /\ Len(memo.filteredRaw) > 0
            THEN [memo EXCEPT !.filteredRaw = SortByTimestamp(@, 0 - 1)]
            ELSE memo ]

\* the filter bar, the KPIs, the charts and the table are rendered only then
ControlsShown == ~processedData.isNull /\ Len(processedData.filteredRaw) > 0

\* the effect on externalData: start and end from the oldest and newest record
InitialRange(data) ==
    LET sorted == SortByTimestamp(data, 1)
    IN  [start |-> sorted[1].date, end |-> sorted[Len(sorted)].date]

\* The renders that follow a state change, up to the state they settle in:
\* the memo is recomputed when one of its dependencies was set, and the
\* detail table is rendered.
Settle(data, range, mode, product, groupBy, recompute) ==
    LET memo == IF recompute
                  THEN Aggregate(data, range, mode, product, groupBy, allCategories(data), tz)
                  ELSE processedData
        r    == RenderDetailTable(data, memo)
    IN  /\ externalData' = r.externalData
        /\ processedData' = r.processedData
        /\ dateRange' = range
        /\ viewMode' = mode
        /\ selectedProduct' = product
        /\ isGroupByCategory' = groupBy

\* a render that follows a change of other state: none of the memo's
\* dependencies was set
Unsettled ==
    LET r == RenderDetailTable(externalData, processedData)
    IN  /\ externalData' = r.externalData
        /\ processedData' = r.processedData
        /\ UNCHANGED <<dateRange, viewMode, selectedProduct, isGroupByCategory>>

----------------------------------------------------------------------------
(* Inputs of the model *)

TimeZones == {0 - 5, 0, 8}

YMDStr(y, m, d, sep) ==
    PadStart(ToDigits(y), 4) \o <<sep>> \o PadStart(ToDigits(m), 2) \o <<sep>>
        \o PadStart(ToDigits(d), 2)

NotADate == <<110, 111, 116, 45, 97, 45, 100, 97, 116, 101>>    \* "not-a-date"
NotANumber == <<120>>                                           \* "x"

\* the rows a sheet is made of
RowChoices ==
    { [date |-> StrCell(YMDStr(2024, 1, 1, HyphenCode)), category |-> "c1", productName |-> "A",
       quantity |-> NumCell(2), amount |-> NumCell(100)],
      [date |-> NumCell(45299), category |-> "amount", productName |-> "B",
       quantity |-> NumCell(1), amount |-> NumCell(100)],
      [date |-> StrCell(YMDStr(2024, 3, 4, HyphenCode)), category |-> "c1", productName |-> "7",
       quantity |-> NumCell(0 - 3), amount |-> NumCell(100)],
      [date |-> StrCell(NotADate), category |-> "c1", productName |-> "A",
       quantity |-> NumCell(1), amount |-> NumCell(50)],
      [date |-> StrCell(YMDStr(1970, 1, 1, HyphenCode)), category |-> "c1", productName |-> "A",
       quantity |-> NumCell(1), amount |-> NumCell(50)],
      [date |-> StrCell(YMDStr(2023, 12, 31, SlashCode)), category |-> "c1", productName |-> "B",
       quantity |-> StrCell(NotANumber), amount |-> StrCell(NotANumber)],
      [date |-> StrCell(YMDStr(2024, 1, 1, HyphenCode)), category |-> "c1", productName |-> "B",
       amount |-> NumCell(30)] }

\* the sheets of at most MaxBatch rows
Sheets == UNION {[1..n -> RowChoices] : n \in 0..MaxBatch}

\* the values a user gives a date input
DateChoices ==
    { EmptyStr, YMDStr(2023, 12, 31, HyphenCode), YMDStr(2024, 1, 1, HyphenCode),
      YMDStr(2024, 1, 8, HyphenCode) }

ViewModes == {"day", "week", "month"}

----------------------------------------------------------------------------
(* Error messages: '' is <<>> *)

NoError == <<>>
MissingColumnsMsg(missingKeys) == <<"missing columns">> \o missingKeys
NoValidDataMsg == <<"no valid sales data in the file">>
ParseFailedMsg == <<"cannot parse the file">>
LibraryFailedMsg == <<"the Excel library failed to load">>

----------------------------------------------------------------------------
(* App and DataInput *)

\* Date.now() when the App starts, in hours: 2024-01-08T00:00Z; the clock
\* `now` counts from it
StartTime == 473520

\* PRODUCT_DATA, with two categories and three products standing for all
PRODUCT_DATA == [c1 |-> <<"A", "B">>, c2 |-> <<"C">>]
CATEGORIES == <<"c1", "c2">>

\* getTodayString(): the local date as YYYY-MM-DD
getTodayString(clock, zone) ==
    LET c == CivilFromDays(LocalDayOf(StartTime + clock, zone))
    IN  ToDigits(c.year) \o HyphenStr \o PadStart(ToDigits(c.month), 2)
            \o HyphenStr \o PadStart(ToDigits(c.day), 2)

\* useState of formData; quantity and amount are numbers until an input
\* event replaces them by the input's string
InitialForm(clock, zone) ==
    [ date |-> getTodayString(clock, zone), category |-> CATEGORIES[1],
      product |-> PRODUCT_DATA[CATEGORIES[1]][1], quantity |-> NumCell(1), amount |-> NumCell(0) ]

\* DataInput is not mounted
NoForm ==
    [ date |-> EmptyStr, category |-> "", product |-> "", quantity |-> NumCell(0),
      amount |-> NumCell(0) ]

\* Number(value) of a number or of the string of a number input
FormNumber(cell) == IF cell.type = "number" THEN cell.num ELSE DigitsValue(cell.str)

\* notification: null, or { message, type }
NoNotification == [type |-> "none", message |-> ""]
ValidationError == [type |-> "error", message |-> "fill in product name and amount"]
SaveSucceeded == [type |-> "success", message |-> "saved"]
SaveFailed == [type |-> "error", message |-> "save failed, try again later"]

\* a validation that lets an amount of 0 pass
FormInvalid_AllowsZero(form) == form.product = "" \/ FormNumber(form.amount) < 0

\* !formData.product || formData.amount <= 0
FormInvalid(form) == form.product = "" \/ FormNumber(form.amount) <= 0

\* the entry handleSaveData builds from the fields handleSubmit passes
NewEntry(form, uuid, zone) ==
    [ id          |-> <<"uuid", uuid, 0>>,
      date        |-> form.date,
      category    |-> form.category,
      productName |-> form.product,
      quantity    |-> FormNumber(form.quantity),
      amount      |-> FormNumber(form.amount),
      timestamp   |-> NewDateFromString(form.date, zone).time ]

NoEntry ==
    [ id |-> <<"none", 0, 0>>, date |-> EmptyStr, category |-> "", productName |-> "",
      quantity |-> 0, amount |-> 0, timestamp |-> 0 ]

\* setFormData(prev => ({ ...prev, product: PRODUCT_DATA[prev.category][0], quantity: 1, amount: 0 }))
ResetForm(form) ==
    [form EXCEPT !.product = PRODUCT_DATA[form.category][1], !.quantity = NumCell(1),
                 !.amount = NumCell(0)]

\* localStorage.getItem('morandi_sales_data'): null, a string JSON.parse
\* rejects, or the JSON of an array of records
NoItem == [kind |-> "absent", records |-> <<>>]
CorruptItem == [kind |-> "corrupt", records |-> <<>>]
ItemOf(records) == [kind |-> "records", records |-> records]

\* a suspended call: fetchData at its fetch, handleSaveData at its POST, at
\* the fetch of the fetchData it awaits, or at its timeout; `entry` is the
\* entry of handleSaveData, `failed` that its catch has run, `mounted` that
\* the DataInput awaiting it is still mounted
FetchTask == [op |-> "fetchData", pc |-> "fetch", entry |-> NoEntry, mounted |-> FALSE]
SaveTask(entry, pc) == [op |-> "handleSaveData", pc |-> pc, entry |-> entry, mounted |-> TRUE]

\* a FileReader in flight
ReaderOf(data) == [data |-> data, mounted |-> TRUE]

\* the state of SalesDashboard is gone with the component
Unmount(seq) == [i \in DOMAIN seq |-> [seq[i] EXCEPT !.mounted = FALSE]]

\* the state of App and DataInput while the dashboard is worked
DashboardOnly ==
    /\ remote = TRUE
    /\ activeTab = "dashboard"
    /\ isLoading = FALSE
    /\ localStore = NoItem
    /\ server = <<>>
    /\ formData = NoForm
    /\ notification = NoNotification
    /\ tasks = <<>>
    /\ nextUuid = 0

----------------------------------------------------------------------------
(* Initial state: App and SalesDashboard as constructed *)

Init ==
    /\ tz \in TimeZones
    /\ now = 0
    /\ isScriptLoaded = FALSE
    /\ readers = <<>>
    /\ sheet = <<>>
    /\ externalData = <<>>
    /\ dateRange = [start |-> EmptyStr, end |-> EmptyStr]
    /\ viewMode = "day"
    /\ selectedProduct = "all"
    /\ isGroupByCategory = FALSE
    /\ errorMsg = NoError
    /\ processedData = NullView
    /\ xlsx = "loading"
    /\ DashboardOnly

----------------------------------------------------------------------------
(* Actions *)

\* script.onload: setIsScriptLoaded(true) of the dashboard that made the
\* script element; a dashboard mounted later has found the element and set
\* the flag itself
ScriptOnLoad ==
    /\ xlsx = "loading"
    /\ isScriptLoaded' = (activeTab = "dashboard")
    /\ xlsx' = "loaded"
    /\ Unsettled
    /\ sheet' = <<>>
    /\ UNCHANGED <<tz, now, readers, errorMsg, appVars>>

\* handleFileUpload, up to reader.readAsBinaryString(file); the file input
\* is disabled until the script has loaded. The onload callback keeps the
\* onImportData of this render, which appends to the data of this render.
HandleFileUpload ==
    /\ activeTab = "dashboard"
    /\ isScriptLoaded
    /\ Len(readers) < MaxReaders
    /\ errorMsg' = NoError
    /\ readers' = Append(readers, ReaderOf(externalData))
    /\ sheet' = <<>>
    /\ Unsettled
    /\ UNCHANGED <<tz, now, isScriptLoaded, xlsx, appVars>>

RemoveAt(s, i) == SubSeq(s, 1, i - 1) \o SubSeq(s, i + 1, Len(s))

\* handleImportData(importedData) of the App, called with the data the
\* closure captured: the array it gives setData
HandleImportData(captured, importedData) == captured \o importedData

\* the effect on externalData, run by the render that follows setData
DateRangeEffect(data, range) ==
    IF Len(data) > 0 /\ range.start = EmptyStr THEN InitialRange(data) ELSE range

\* reader.onload: XLSX.read throws on a file it cannot parse
ReaderOnLoadCorrupt(i) ==
    /\ i \in DOMAIN readers
    /\ xlsx = "loaded"
    /\ readers' = RemoveAt(readers, i)
    /\ sheet' = <<>>
    /\ errorMsg' = IF readers[i].mounted THEN ParseFailedMsg ELSE errorMsg
    /\ Unsettled
    /\ UNCHANGED <<tz, now, isScriptLoaded, xlsx, appVars>>

\* reader.onload when window.XLSX is not there yet
ReaderOnLoadNoLibrary(i) ==
    /\ i \in DOMAIN readers
    /\ xlsx # "loaded"
    /\ readers' = RemoveAt(readers, i)
    /\ sheet' = <<>>
    /\ errorMsg' = IF readers[i].mounted THEN LibraryFailedMsg ELSE errorMsg
    /\ Unsettled
    /\ UNCHANGED <<tz, now, isScriptLoaded, xlsx, appVars>>

\* setData of the App and the renders that follow: the dashboard, when it
\* is the tab shown, runs its effect on externalData and its memo
SetData(data, changed) ==
    IF activeTab = "dashboard"
      THEN Settle(data, DateRangeEffect(data, dateRange), viewMode, selectedProduct,
                  isGroupByCategory, changed)
      ELSE /\ externalData' = data
           /\ UNCHANGED <<dateRange, viewMode, selectedProduct, isGroupByCategory,
                          processedData>>

\* reader.onload with a sheet that parses to the rows `data`, at time t
ReaderOnLoad(i, data, t) ==
    /\ i \in DOMAIN readers
    /\ xlsx = "loaded"
    /\ t >= now /\ t <= MaxNow
    /\ now' = t
    /\ readers' = RemoveAt(readers, i)
    /\ sheet' = data
    /\ LET missingKeys   == IF Len(data) > 0 THEN MissingKeys(data[1]) ELSE <<>>
           formattedData == IF Len(data) > 0 /\ Len(missingKeys) = 0
                              THEN FormatRows(data, t, tz)
                              ELSE <<>>
           imported      == Len(formattedData) > 0      \* onImportData is called
           updatedData   == IF imported
                              THEN HandleImportData(readers[i].data, formattedData)
                              ELSE externalData
       IN  /\ Len(updatedData) <= MaxRecords
           /\ errorMsg' = IF Len(data) = 0 \/ imported \/ ~readers[i].mounted THEN errorMsg
                          ELSE IF Len(missingKeys) > 0 THEN MissingColumnsMsg(missingKeys)
                          ELSE NoValidDataMsg
           /\ localStore' = IF imported /\ ~remote THEN ItemOf(updatedData) ELSE localStore
           /\ SetData(updatedData, imported)
    /\ UNCHANGED <<tz, isScriptLoaded, xlsx, remote, activeTab, isLoading, server, formData,
                   notification, tasks, nextUuid>>

\* onChange of the start date input
SetStart(value) ==
    /\ ControlsShown
    /\ Settle(externalData, [dateRange EXCEPT !.start = value], viewMode, selectedProduct,
              isGroupByCategory, TRUE)
    /\ sheet' = <<>>
    /\ UNCHANGED <<tz, now, isScriptLoaded, readers, errorMsg, xlsx, appVars>>

\* onChange of the end date input
SetEnd(value) ==
    /\ ControlsShown
    /\ Settle(externalData, [dateRange EXCEPT !.end = value], viewMode, selectedProduct,
              isGroupByCategory, TRUE)
    /\ sheet' = <<>>
    /\ UNCHANGED <<tz, now, isScriptLoaded, readers, errorMsg, xlsx, appVars>>

\* onChange of the product select: "all" or one of allProducts
SetSelectedProduct(value) ==
    /\ ControlsShown
    /\ value \in {"all"} \cup allProducts(externalData)
    /\ Settle(externalData, dateRange, viewMode, value, isGroupByCategory, TRUE)
    /\ sheet' = <<>>
    /\ UNCHANGED <<tz, now, isScriptLoaded, readers, errorMsg, xlsx, appVars>>

\* onClick of the stacking switch
ToggleGroupByCategory ==
    /\ ControlsShown
    /\ Settle(externalData, dateRange, viewMode, selectedProduct, ~isGroupByCategory, TRUE)
    /\ sheet' = <<>>
    /\ UNCHANGED <<tz, now, isScriptLoaded, readers, errorMsg, xlsx, appVars>>

\* onClick of a view button
SetViewMode(mode) ==
    /\ ControlsShown
    /\ Settle(externalData, dateRange, mode, selectedProduct, isGroupByCategory, TRUE)
    /\ sheet' = <<>>
    /\ UNCHANGED <<tz, now, isScriptLoaded, readers, errorMsg, xlsx, appVars>>

----------------------------------------------------------------------------
(* Specifications *)

\* The import pipeline from the state after construction: the script load,
\* file uploads and their onload callbacks, with the renders they cause.
Next ==
    \/ ScriptOnLoad
    \/ HandleFileUpload
    \/ \E i \in DOMAIN readers : ReaderOnLoadCorrupt(i)
    \/ \E i \in DOMAIN readers, data \in Sheets, t \in 0..MaxNow : ReaderOnLoad(i, data, t)

Spec == Init /\ [][Next]_vars

\* the record sets the App holds before and after the import of one sheet
ImportedData(zone) ==
    { FormatRows(data, 0, zone) :
        data \in {rows \in Sheets : Len(rows) > 0 /\ Len(MissingKeys(rows[1])) = 0} }

\* The dashboard over a record set: the state after construction or the
\* state a first import leaves (date range initialised by the effect, memo
\* computed, table rendered), from which the user works the filter bar.
InitDashboard ==
    /\ tz \in TimeZones
    /\ now = 0
    /\ isScriptLoaded = TRUE
    /\ readers = <<>>
    /\ sheet = <<>>
    /\ errorMsg = NoError
    /\ xlsx = "loaded"
    /\ DashboardOnly
    /\ \E data \in ImportedData(tz) :
         LET range == DateRangeEffect(data, [start |-> EmptyStr, end |-> EmptyStr])
             r     == RenderDetailTable(data,
                          Aggregate(data, range, "day", "all", FALSE, allCategories(data), tz))
         IN  /\ externalData = r.externalData
             /\ processedData = r.processedData
             /\ dateRange = range
    /\ viewMode = "day"
    /\ selectedProduct = "all"
    /\ isGroupByCategory = FALSE

NextDashboard ==
    \/ \E value \in DateChoices : SetStart(value)
    \/ \E value \in DateChoices : SetEnd(value)
    \/ \E value \in {"all", "A", "B", "7"} : SetSelectedProduct(value)
    \/ ToggleGroupByCategory
    \/ \E mode \in ViewModes : SetViewMode(mode)

SpecDashboard == InitDashboard /\ [][NextDashboard]_vars

----------------------------------------------------------------------------
(* The App: tabs, the form, fetchData and handleSaveData on both backends *)

EmptyRange == [start |-> EmptyStr, end |-> EmptyStr]

\* a record the endpoint or the local store holds from an earlier session
OldRecord ==
    [ id |-> <<"uuid", 100, 0>>, date |-> YMDStr(2024, 1, 1, HyphenCode), category |-> "c1",
      productName |-> "A", quantity |-> 1, amount |-> 100,
      timestamp |-> DaysFromCivil(2024, 1, 1) * DAY ]

ServerChoices == {<<>>, <<OldRecord>>}
StoreChoices == {NoItem, CorruptItem, ItemOf(<<OldRecord>>)}

\* the sheets imported while the form is in use: one row, well formed
AppSheets ==
    {rows \in Sheets : /\ Len(rows) = 1
                       /\ rows[1]["amount"] = NumCell(100)
                       /\ rows[1]["quantity"].num > 0}

\* the time zone of the browser
AppZone == 8

\* the input events of the form: [name, value] of e.target
FormInputs ==
    {<<"category", CATEGORIES[i]>> : i \in DOMAIN CATEGORIES}
        \cup {<<"amount", StrCell(ToDigits(50))>>}

\* App and DataInput after the mount effect has called fetchData: on the
\* remote backend the fetch is in flight, on the local backend fetchData
\* has run to its end
InitApp ==
    /\ tz = AppZone
    /\ now = 0
    /\ isScriptLoaded = FALSE
    /\ readers = <<>>
    /\ sheet = <<>>
    /\ dateRange = EmptyRange
    /\ viewMode = "day"
    /\ selectedProduct = "all"
    /\ isGroupByCategory = FALSE
    /\ errorMsg = NoError
    /\ processedData = NullView
    /\ xlsx = "absent"
    /\ activeTab = "input"
    /\ formData = InitialForm(0, tz)
    /\ notification = NoNotification
    /\ nextUuid = 0
    /\ remote \in BOOLEAN
    /\ IF remote
         THEN /\ server \in ServerChoices
              /\ localStore = NoItem
              /\ externalData = <<>>
              /\ isLoading = TRUE
              /\ tasks = <<FetchTask>>
         ELSE /\ server = <<>>
              /\ localStore \in StoreChoices
              /\ externalData = localStore.records
              /\ isLoading = FALSE
              /\ tasks = <<>>

\* onClick of a tab button: the component of the other tab is unmounted and
\* its state is gone, the component of this tab is mounted and its effects run
SetActiveTab(tab) ==
    /\ tab # activeTab
    /\ activeTab' = tab
    /\ formData' = IF tab = "input" THEN InitialForm(now, tz) ELSE NoForm
    /\ notification' = NoNotification
    /\ tasks' = IF tab = "input" THEN tasks ELSE Unmount(tasks)
    /\ readers' = IF tab = "input" THEN Unmount(readers) ELSE readers
    /\ xlsx' = IF tab = "dashboard" /\ xlsx = "absent" THEN "loading" ELSE xlsx
    /\ isScriptLoaded' = (tab = "dashboard" /\ xlsx # "absent")
    /\ errorMsg' = NoError
    /\ sheet' = <<>>
    /\ IF tab = "dashboard"
         THEN Settle(externalData, DateRangeEffect(externalData, EmptyRange), "day", "all",
                     FALSE, TRUE)
         ELSE /\ processedData' = NullView
              /\ dateRange' = EmptyRange
              /\ viewMode' = "day"
              /\ selectedProduct' = "all"
              /\ isGroupByCategory' = FALSE
              /\ UNCHANGED externalData
    /\ UNCHANGED <<tz, now, remote, isLoading, localStore, server, nextUuid>>

\* onChange of an input or select of the form
HandleChange(name, value) ==
    /\ activeTab = "input"
    /\ formData' = IF name = "category"
                     THEN [formData EXCEPT !.category = value, !.product = PRODUCT_DATA[value][1]]
                     ELSE [formData EXCEPT ![name] = value]
    /\ sheet' = <<>>
    /\ Unsettled
    /\ UNCHANGED <<tz, now, isScriptLoaded, readers, errorMsg, xlsx, remote, activeTab, isLoading,
                   localStore, server, notification, tasks, nextUuid>>

\* what follows `await onSave(...)` in handleSubmit once handleSaveData has
\* returned: the success notification, the reset of the form and the timer
\* that clears the notification, in a DataInput that is still mounted
AfterSave(formMounted, rest) ==
    /\ notification' = IF formMounted THEN SaveSucceeded ELSE notification
    /\ formData' = IF formMounted THEN ResetForm(formData) ELSE formData
    /\ tasks' = IF formMounted
                  THEN Append(rest, [op |-> "setTimeout", pc |-> "timer", entry |-> NoEntry,
                                     mounted |-> TRUE])
                  ELSE rest

\* a submit button that is never disabled
SubmitEnabled_Always == TRUE

\* the submit button of the form: disabled={isLoading}
SubmitEnabled == ~isLoading

\* the refresh button of the dashboard: disabled={isLoading}
RefreshEnabled == ~isLoading

\* handleSaveData merging the entry on both backends
SavedData_Optimistic(entry) == Append(externalData, entry)

\* the record set handleSaveData leaves before its first await: the entry is
\* merged on the local backend only, the remote backend waits for fetchData
SavedData(entry) == IF remote THEN externalData ELSE Append(externalData, entry)

\* the submit event of the form (the button is disabled while isLoading):
\* handleSubmit and the part of handleSaveData before its first await;
\* storageOk: localStorage.setItem does not throw
HandleSubmit(storageOk) ==
    /\ activeTab = "input"
    /\ SubmitEnabled
    /\ sheet' = <<>>
    /\ IF FormInvalid(formData)
         THEN /\ notification' = ValidationError
              /\ Unsettled
              /\ UNCHANGED <<formData, tasks, isLoading, localStore, nextUuid>>
         ELSE LET entry       == NewEntry(formData, nextUuid, tz)
                  updatedData == SavedData(entry)
              IN  /\ nextUuid < MaxSaves
                  /\ Len(externalData) < MaxRecords /\ Len(server) < MaxRecords
                  /\ nextUuid' = nextUuid + 1
                  /\ externalData' = updatedData
                  /\ UNCHANGED <<dateRange, viewMode, selectedProduct, isGroupByCategory,
                                 processedData>>
                  /\ localStore' = IF ~remote /\ storageOk THEN ItemOf(updatedData)
                                   ELSE localStore
                  /\ isLoading' = (remote \/ storageOk)
                  /\ IF remote \/ storageOk
                       THEN /\ tasks' = Append(tasks, SaveTask(entry, IF remote THEN "post"
                                                                      ELSE "delay"))
                            /\ UNCHANGED <<formData, notification>>
                       ELSE AfterSave(TRUE, tasks)
    /\ UNCHANGED <<tz, now, isScriptLoaded, readers, errorMsg, xlsx, remote, activeTab, server>>

\* the fetch of handleSaveData settles: delivered, the endpoint appends the
\* entry and handleSaveData goes on to fetchData; rejected, the catch and
\* the finally run and handleSaveData returns
PostComplete(i, delivered) ==
    /\ i \in DOMAIN tasks
    /\ tasks[i].pc = "post"
    /\ sheet' = <<>>
    /\ Unsettled
    /\ server' = IF delivered THEN Append(server, tasks[i].entry) ELSE server
    /\ isLoading' = delivered
    /\ IF delivered
         THEN /\ tasks' = [tasks EXCEPT ![i].pc = "fetch"]
              /\ UNCHANGED <<formData, notification>>
         ELSE AfterSave(tasks[i].mounted, RemoveAt(tasks, i))
    /\ UNCHANGED <<tz, now, isScriptLoaded, readers, errorMsg, xlsx, remote, activeTab,
                   localStore, nextUuid>>

\* the timeout of handleSaveData on the local backend
DelayDone(i) ==
    /\ i \in DOMAIN tasks
    /\ tasks[i].pc = "delay"
    /\ sheet' = <<>>
    /\ Unsettled
    /\ isLoading' = FALSE
    /\ AfterSave(tasks[i].mounted, RemoveAt(tasks, i))
    /\ UNCHANGED <<tz, now, isScriptLoaded, readers, errorMsg, xlsx, remote, activeTab,
                   localStore, server, nextUuid>>

\* setTimeout(() => setNotification(null), 3000)
TimerFires(i) ==
    /\ i \in DOMAIN tasks
    /\ tasks[i].pc = "timer"
    /\ sheet' = <<>>
    /\ Unsettled
    /\ notification' = IF tasks[i].mounted THEN NoNotification ELSE notification
    /\ tasks' = RemoveAt(tasks, i)
    /\ UNCHANGED <<tz, now, isScriptLoaded, readers, errorMsg, xlsx, remote, activeTab,
                   isLoading, localStore, server, formData, nextUuid>>

\* fetchData giving an empty record set when there is no valid payload
FetchedData_EmptyResult(valid, payload) == IF valid THEN payload ELSE <<>>

\* the record set after fetchData: setData is called with a valid payload
\* only (a response of status 'success', a stored item that parses)
FetchedData(valid, payload) == IF valid THEN payload ELSE externalData

\* onRefresh of the dashboard (the button is disabled while isLoading):
\* fetchData up to its fetch on the remote backend, the whole of fetchData
\* on the local backend
Refresh ==
    /\ activeTab = "dashboard"
    /\ RefreshEnabled
    /\ sheet' = <<>>
    /\ LET parsed == ~remote /\ localStore.kind = "records"
       IN  SetData(FetchedData(parsed, localStore.records), parsed)
    /\ isLoading' = remote
    /\ tasks' = IF remote THEN Append(tasks, FetchTask) ELSE tasks
    /\ UNCHANGED <<tz, now, isScriptLoaded, readers, errorMsg, xlsx, remote, activeTab,
                   localStore, server, formData, notification, nextUuid>>

\* the fetch of fetchData settles: "success" is a response of status
\* 'success' with the endpoint's records, "error" a response of another
\* status, "failure" a rejected fetch or a body that is not JSON. The finally
\* of fetchData runs, and, when handleSaveData awaited it, the finally of
\* handleSaveData and the rest of handleSubmit.
FetchResponse(i, outcome) ==
    /\ i \in DOMAIN tasks
    /\ tasks[i].pc = "fetch"
    /\ sheet' = <<>>
    /\ SetData(FetchedData(outcome = "success", server), outcome = "success")
    /\ isLoading' = FALSE
    /\ IF tasks[i].op = "handleSaveData"
         THEN AfterSave(tasks[i].mounted, RemoveAt(tasks, i))
         ELSE /\ tasks' = RemoveAt(tasks, i)
              /\ UNCHANGED <<formData, notification>>
    /\ UNCHANGED <<tz, now, isScriptLoaded, readers, errorMsg, xlsx, remote, activeTab,
                   localStore, server, nextUuid>>

NextApp ==
    \/ \E tab \in {"input", "dashboard"} : SetActiveTab(tab)
    \/ \E input \in FormInputs : HandleChange(input[1], input[2])
    \/ \E storageOk \in BOOLEAN : HandleSubmit(storageOk)
    \/ \E i \in DOMAIN tasks, delivered \in BOOLEAN : PostComplete(i, delivered)
    \/ \E i \in DOMAIN tasks : DelayDone(i)
    \/ \E i \in DOMAIN tasks : TimerFires(i)
    \/ Refresh
    \/ \E i \in DOMAIN tasks, outcome \in {"success", "error", "failure"} :
           FetchResponse(i, outcome)
    \/ ScriptOnLoad
    \/ HandleFileUpload
    \/ \E i \in DOMAIN readers : ReaderOnLoadNoLibrary(i)
    \/ \E i \in DOMAIN readers : ReaderOnLoadCorrupt(i)
    \/ \E i \in DOMAIN readers, data \in AppSheets : ReaderOnLoad(i, data, now)

SpecApp == InitApp /\ [][NextApp]_vars

\* The dashboard with everything that sets the record set or the date
\* range: imports, refreshes and the two date inputs.
NextRange ==
    \/ ScriptOnLoad
    \/ HandleFileUpload
    \/ \E i \in DOMAIN readers, data \in AppSheets : ReaderOnLoad(i, data, now)
    \/ Refresh
    \/ \E i \in DOMAIN tasks, outcome \in {"success", "error", "failure"} :
           FetchResponse(i, outcome)
    \/ \E value \in DateChoices : SetStart(value)
    \/ \E value \in DateChoices : SetEnd(value)

SpecRange == Init /\ [][NextRange]_vars

----------------------------------------------------------------------------
(* Vocabulary of the properties *)

RangeOf(seq) == {seq[i] : i \in DOMAIN seq}

\* how often x occurs in seq
Occurrences(seq, x) == Cardinality({i \in DOMAIN seq : seq[i] = x})

\* the same elements, each as often
SameBag(a, b) ==
    /\ Len(a) = Len(b)
    /\ \A x \in RangeOf(a) \cup RangeOf(b) : Occurrences(a, x) = Occurrences(b, x)

\* the sum of a field over a sequence of records, from the first to the last
RECURSIVE Total(_, _)
Total(records, field) ==
    IF records = <<>> THEN 0 ELSE Head(records)[field] + Total(Tail(records), field)

\* startOfDay of a YYYY-MM-DD date, as a time value
StartOfDay(date) == YMDDay(date) * DAY

\* both dates of the range are dates
RangeValid == IsYMD(dateRange.start, HyphenCode) /\ IsYMD(dateRange.end, HyphenCode)

\* a record the filters select
Selected(d) ==
    /\ StartOfDay(dateRange.start) <= d.timestamp
    /\ d.timestamp < StartOfDay(dateRange.end) + DAY
    /\ (selectedProduct = "all" \/ d.productName = selectedProduct)

\* the filtered set, in the order of the record set
Kept == SelectSeq(externalData, Selected)

\* a view model is shown
HasView == ~processedData.isNull

----------------------------------------------------------------------------
(* C1: whenever there is a view model, its raw rows are exactly the records
   with startOfDay(start) <= timestamp < startOfDay(end) + 1 day and the
   selected product (any product for 'all'), and every output comes from
   these records: the totals are their sums, the top product, every trend
   bucket and every category of the breakdown belong to one of them. *)
C1_FilterKeepsExactly ==
    HasView =>
        /\ SameBag(processedData.filteredRaw, Kept)
        /\ processedData.totalSales = Total(Kept, "amount")
        /\ processedData.totalQty = Total(Kept, "quantity")
        /\ processedData.topProduct \in {"-"} \cup {d.productName : d \in RangeOf(Kept)}
        /\ \A i \in DOMAIN processedData.trendData :
               \E d \in RangeOf(Kept) : processedData.trendData[i]["date"] = BucketKey(d, viewMode, tz)
        /\ \A i \in DOMAIN processedData.categoryData :
               \E d \in RangeOf(Kept) : processedData.categoryData[i].name = d.category

\* a record within the end date but after its midnight is kept, one at the
\* first instant of the next day is not
C1_Witness ==
    /\ HasView
    /\ \E i, j \in DOMAIN externalData :
          /\ externalData[i].timestamp = StartOfDay(dateRange.end) + DAY
          /\ externalData[j].timestamp > StartOfDay(dateRange.end)
          /\ externalData[j].timestamp < StartOfDay(dateRange.end) + DAY
          /\ externalData[j] \in RangeOf(processedData.filteredRaw)
          /\ externalData[i] \notin RangeOf(processedData.filteredRaw)

(* C2: totalSales and totalQty are the sums of amount and quantity over the
   filtered set; with product 'all' and a range from a date not after any
   record's date to a date not before any, totalSales is the sum of amount
   over the whole record set. *)
DateLessEq(a, b) == YMDDay(a) <= YMDDay(b)

RangeCoversAll ==
    /\ RangeValid
    /\ \A d \in RangeOf(externalData) :
          DateLessEq(dateRange.start, d.date) /\ DateLessEq(d.date, dateRange.end)

C2_Totals ==
    /\ HasView =>
          /\ processedData.totalSales = Total(processedData.filteredRaw, "amount")
          /\ processedData.totalQty = Total(processedData.filteredRaw, "quantity")
    /\ (Len(externalData) > 0 /\ selectedProduct = "all" /\ RangeCoversAll) =>
          /\ HasView
          /\ processedData.totalSales = Total(externalData, "amount")
          /\ processedData.totalQty = Total(externalData, "quantity")

\* the full range over two records of different dates, one of them not at
\* midnight, with different amounts and quantities
C2_Witness ==
    /\ Len(externalData) = 2 /\ selectedProduct = "all" /\ RangeCoversAll
    /\ externalData[1].date # externalData[2].date
    /\ \E d \in RangeOf(externalData) : d.timestamp % DAY # 0
    /\ processedData.totalSales > 0
    /\ processedData.totalSales # processedData.totalQty
    /\ viewMode # "day"

----------------------------------------------------------------------------
(* C3, as the claim states it: whenever the filtered set is empty, the
   empty record set included, there is a view model with zero totals, an
   empty trend series, an empty category breakdown and topProduct '-'. *)
IsZeroView ==
    /\ HasView
    /\ processedData.totalSales = 0 /\ processedData.totalQty = 0
    /\ processedData.trendData = <<>> /\ processedData.categoryData = <<>>
    /\ processedData.topProduct = "-"

C3_Original ==
    (Len(externalData) = 0 \/ (RangeValid /\ Len(Kept) = 0)) => IsZeroView

(* C3, amended: whenever the record set is not empty, both dates are set
   and valid and the filtered set is empty, the view model has zero totals,
   an empty trend series, an empty category breakdown and topProduct '-';
   whenever the record set is empty or a date is not set there is no view
   model (the memo is null). *)
C3_EmptyCase ==
    /\ (Len(externalData) > 0 /\ RangeValid /\ Len(Kept) = 0) => IsZeroView
    /\ (Len(externalData) = 0 \/ dateRange.start = EmptyStr \/ dateRange.end = EmptyStr)
           => ~HasView

\* records are held and the filters select none of them
C3_Witness ==
    /\ Len(externalData) > 0 /\ RangeValid /\ Len(Kept) = 0
    /\ HasView /\ processedData.filteredRaw = <<>>

----------------------------------------------------------------------------
\* the summed amount of a product over the filtered set
ProductSum(p) == Total(SelectSeq(Kept, LAMBDA d : d.productName = p), "amount")

\* the products of maximal summed amount
MaxProducts ==
    {p \in {d.productName : d \in RangeOf(Kept)} :
        \A q \in {d.productName : d \in RangeOf(Kept)} : ProductSum(q) <= ProductSum(p)}

\* the one of them met first in the filtered records
FirstMaxProduct ==
    Kept[CHOOSE i \in DOMAIN Kept :
            /\ Kept[i].productName \in MaxProducts
            /\ \A j \in 1..(i - 1) : Kept[j].productName \notin MaxProducts].productName

(* C4: for every non-empty filtered set, topProduct is the product whose
   summed amount over the filtered set is maximal, the first one met in the
   order of the filtered records when several share the maximum. *)
C4_TopProduct ==
    (HasView /\ Len(Kept) > 0) => processedData.topProduct = FirstMaxProduct

----------------------------------------------------------------------------
\* the ISO-8601 week of a day: the week of its Thursday, weeks from Monday
ISOWeekId(dayNo) ==
    LET thursday == dayNo - ((dayNo + 3) % 7) + 3
        year     == CivilFromDays(thursday).year
        week     == (thursday - DaysFromCivil(year, 1, 1)) \div 7 + 1
    IN  PadStart(ToDigits(year), 4) \o WeekSep \o PadStart(ToDigits(week), 2)

(* C5: in week view every filtered record has a trend bucket whose key is
   the ISO-8601 week identifier YYYY-Www (two-digit week) of its date; a
   record dated 2024-01-01 is in the bucket "2024-W01". *)
C5_IsoWeekKey ==
    (HasView /\ viewMode = "week") =>
        \A d \in RangeOf(processedData.filteredRaw) :
            \E i \in DOMAIN processedData.trendData :
                processedData.trendData[i]["date"] = ISOWeekId(YMDDay(d.date))

----------------------------------------------------------------------------
\* the filtered records of the bucket at position i of the trend series
RecordsOfBucket(i) ==
    {d \in RangeOf(processedData.filteredRaw) :
        BucketKey(d, viewMode, tz) = processedData.trendData[i]["date"]}

(* C6: in each view mode the trend series is in chronological order: no
   record of a bucket is later than a record of a bucket that follows it
   in the series. *)
C6_TrendChronological ==
    HasView =>
        \A i, j \in DOMAIN processedData.trendData :
            i < j => \A a \in RecordsOfBucket(i), b \in RecordsOfBucket(j) :
                        a.timestamp < b.timestamp

----------------------------------------------------------------------------
(* C7: with the category breakdown on, every trend bucket has an entry for
   every category of the whole record set, and the entry is the sum of
   amount over the filtered records of that bucket and category (0 when
   there is none). *)
C7_CategoryEntries ==
    (HasView /\ isGroupByCategory) =>
        \A i \in DOMAIN processedData.trendData :
            \A c \in allCategories(externalData) :
                /\ c \in DOMAIN processedData.trendData[i]
                /\ processedData.trendData[i][c] =
                       Total(SelectSeq(Kept, LAMBDA d :
                                 /\ d.category = c
                                 /\ BucketKey(d, viewMode, tz) = processedData.trendData[i]["date"]),
                             "amount")

----------------------------------------------------------------------------
\* the filters of the aggregation
Filters == <<dateRange, viewMode, selectedProduct, isGroupByCategory>>

\* the view model a new evaluation over the present record set and filters
\* gives, as the detail table shows it
FreshView ==
    RenderDetailTable(externalData,
        Aggregate(externalData, dateRange, viewMode, selectedProduct, isGroupByCategory,
                  allCategories(externalData), tz)).processedData

(* C8: the view model held after any sequence of aggregations and renders
   is the one a new evaluation over the present record set and filters
   gives; a step that leaves the record set and the filters as they are
   leaves the view model as it is; and no aggregation or render changes
   the record set. *)
C8_Pure ==
    /\ [](processedData = FreshView)
    /\ [][/\ externalData' = externalData
          /\ Filters' = Filters => processedData' = processedData]_vars

\* after a change of filter the table shows the filtered records in another
\* order than the record set holds them, which is as it was imported
C8_Witness ==
    /\ HasView /\ viewMode # "day" /\ selectedProduct = "all"
    /\ Len(processedData.filteredRaw) = 2
    /\ processedData.filteredRaw # Kept
    /\ externalData[1].timestamp < externalData[2].timestamp

----------------------------------------------------------------------------
\* reader.onload has just run on a sheet
SheetRead == Len(readers') < Len(readers) /\ Len(sheet') > 0

\* the required columns a row lacks
ColumnsLacking(row) == {key \in RangeOf(requiredKeys) : key \notin DOMAIN row}

(* C9: when a row of the sheet lacks a required column, no record is
   appended to the record set and the error names the missing columns. *)
C9_BatchRejected ==
    [][(SheetRead /\ \E i \in DOMAIN sheet' : ColumnsLacking(sheet'[i]) # {}) =>
          /\ externalData' = externalData
          /\ Len(errorMsg') > 0
          /\ errorMsg'[1] = "missing columns"
          /\ \A i \in DOMAIN sheet' : ColumnsLacking(sheet'[i]) \subseteq RangeOf(errorMsg')]_vars

----------------------------------------------------------------------------
\* the date cell of a row is a calendar date: a serial number, or a string
\* YYYY-MM-DD or YYYY/MM/DD of a day that exists
HasValidDate(row) ==
    /\ "date" \in DOMAIN row
    /\ \/ row["date"].type = "number"
       \/ /\ row["date"].type = "string"
          /\ IsYMD(row["date"].str, HyphenCode) \/ IsYMD(row["date"].str, SlashCode)

\* the rows of the sheet with a valid date, by position
ValidRows(rows) == {i \in DOMAIN rows : HasValidDate(rows[i])}

(* C10: from a sheet whose rows all have the required columns, exactly the
   rows with a valid date are imported, one record each (the record of row
   i has the id index i - 1), and the rows with an unparseable date are
   not. *)
C10_DroppedIffInvalid ==
    [][(SheetRead /\ \A i \in DOMAIN sheet' : ColumnsLacking(sheet'[i]) = {}) =>
          /\ Len(externalData') = Len(externalData) + Cardinality(ValidRows(sheet'))
          /\ \A i \in DOMAIN sheet' :
                 (i \in ValidRows(sheet')) <=>
                     \E k \in (Len(externalData) + 1)..Len(externalData') :
                         externalData'[k].id[3] = i - 1]_vars

----------------------------------------------------------------------------
\* the records of the record set, of the local store and of the endpoint
StoredRecords == RangeOf(externalData) \cup RangeOf(localStore.records) \cup RangeOf(server)

(* C11: every record of the record set or of a store has quantity >= 0 and
   amount >= 0. *)
C11_NonNegative ==
    \A d \in StoredRecords : d.quantity >= 0 /\ d.amount >= 0

----------------------------------------------------------------------------
(* C12: no two records of the record set have the same id. *)
C12_UniqueIds ==
    \A i, j \in DOMAIN externalData : i # j => externalData[i].id # externalData[j].id

----------------------------------------------------------------------------
\* epochMillis of a YYYY-MM-DD date string (in the model's hours)
EpochOfDate(date) == YMDDay(date) * DAY

(* C13: every record of the record set has a YYYY-MM-DD date and a
   timestamp that is the epoch time of that date. *)
C13_TimestampOfDate ==
    \A d \in RangeOf(externalData) :
        IsYMD(d.date, HyphenCode) /\ d.timestamp = EpochOfDate(d.date)

----------------------------------------------------------------------------
\* the calendar day a date cell denotes, as a day number
DayOfCell(cell) ==
    IF cell.type = "number" THEN cell.num - SERIAL_EPOCH ELSE YMDDay(cell.str)

\* that day as YYYY-MM-DD
CanonicalDate(cell) ==
    LET c == CivilFromDays(DayOfCell(cell))
    IN  YMDStr(c.year, c.month, c.day, HyphenCode)

(* C14: the record imported from a row with a valid date, serial number or
   string, has the YYYY-MM-DD string of the calendar date the cell denotes,
   so a serial number and a string of the same date give the same string. *)
C14_SameDateString ==
    [][SheetRead =>
          \A i \in ValidRows(sheet') :
              \A k \in (Len(externalData) + 1)..Len(externalData') :
                  externalData'[k].id[3] = i - 1 =>
                      externalData'[k].date = CanonicalDate(sheet'[i]["date"])]_vars

----------------------------------------------------------------------------
\* a fetchData that ends without a valid payload: a response of another
\* status or a failed fetch, a stored item that is absent or does not parse
LoadWithoutPayload ==
    \/ \E i \in DOMAIN tasks, outcome \in {"error", "failure"} : FetchResponse(i, outcome)
    \/ ~remote /\ localStore.kind # "records" /\ Refresh

(* C15, as the claim states it: after a load that completes without a valid
   payload the record set is empty. *)
C15_Original == [][LoadWithoutPayload => externalData' = <<>>]_vars

(* C15, amended: a load that completes without a valid payload leaves the
   record set as it was (empty only when it was empty before), and ends
   normally: the loading flag is reset. *)
C15_RecordSetKept ==
    [][LoadWithoutPayload =>
          externalData' = externalData /\ ~isLoading']_vars

\* the endpoint holds a saved entry, no request is in flight, and the record
\* set is still the one loaded before the save: the load after the save
\* ended without a valid payload and the record set was not empty
C15_Witness ==
    /\ remote
    /\ ~isLoading
    /\ Len(server) = 2
    /\ server[1] = OldRecord
    /\ externalData = <<OldRecord>>
    /\ \A i \in DOMAIN tasks : tasks[i].pc = "timer"

----------------------------------------------------------------------------
\* a save whose write fails: the POST is rejected, or localStorage.setItem
\* throws
AppendFailed ==
    \/ \E i \in DOMAIN tasks : PostComplete(i, FALSE)
    \/ ~remote /\ ~FormInvalid(formData) /\ HandleSubmit(FALSE)

(* C16: when the write of a save fails, the form does not report success and
   does not reset its fields. *)
C16_FailureSignalled ==
    [][AppendFailed => notification' # SaveSucceeded /\ formData' = formData]_vars

----------------------------------------------------------------------------
\* the records made by handleSaveData in this session
FormMade(d) == d.id[1] = "uuid" /\ d.id[2] < MaxSaves

(* C17: on the remote backend the record set never holds a saved record the
   endpoint does not hold (no optimistic merge); the step in which the
   write of a save completes leaves the record set alone and takes the save
   to its fetchData, the save still pending; and when that fetchData
   returns a payload, the record set is that payload. *)
C17_ReloadAfterAppend ==
    [][remote =>
          /\ \A d \in RangeOf(externalData') : FormMade(d) => d \in RangeOf(server')
          /\ \A i \in DOMAIN tasks :
                /\ PostComplete(i, TRUE) =>
                      /\ i \in DOMAIN tasks'
                      /\ tasks'[i].op = "handleSaveData" /\ tasks'[i].pc = "fetch"
                      /\ externalData' = externalData
                /\ tasks[i].op = "handleSaveData" /\ FetchResponse(i, "success") =>
                      externalData' = server]_vars

\* a save on the remote backend is over and the record set holds its record,
\* loaded from the endpoint
C17_Witness ==
    /\ remote
    /\ ~isLoading
    /\ externalData = server
    /\ \E d \in RangeOf(externalData) : FormMade(d)

----------------------------------------------------------------------------
(* C18: on the local backend a record the store holds is still held after
   every later save and import, a saved record exactly once: a load that
   follows returns every appended record. *)
C18_NoLostAppend ==
    [][~remote =>
          \A d \in RangeOf(localStore.records) :
              IF FormMade(d) THEN Occurrences(localStore'.records, d) = 1
              ELSE Occurrences(localStore'.records, d) >= 1]_vars

----------------------------------------------------------------------------
\* the form holds no product or an amount that is not positive
IncompleteForm == formData.product = "" \/ FormNumber(formData.amount) <= 0

(* C19: the submission of a form with no product or with an amount <= 0
   shows the validation error and starts no save: no entry is built, no
   request or write is made, and the record set, the stores and the fields
   of the form stay as they are. *)
C19_InvalidNotSaved ==
    [][IncompleteForm /\ (\E storageOk \in BOOLEAN : HandleSubmit(storageOk)) =>
          /\ notification' = ValidationError
          /\ UNCHANGED <<externalData, formData, tasks, nextUuid, isLoading, localStore,
                         server>>]_vars

\* the form shows the validation error for its amount
C19_Witness ==
    /\ activeTab = "input"
    /\ notification = ValidationError
    /\ FormNumber(formData.amount) <= 0

----------------------------------------------------------------------------
\* range holds the dates of a record of least and of a record of greatest
\* timestamp
IsMinMaxRange(range, data) ==
    \E a, b \in RangeOf(data) :
        /\ \A d \in RangeOf(data) : a.timestamp <= d.timestamp /\ d.timestamp <= b.timestamp
        /\ range = [start |-> a.date, end |-> b.date]

(* C20: the date range is initialised from the oldest and the newest record
   in each step that takes the record set from empty to non-empty, and in
   no other step: another change of the record set leaves the range alone,
   and an edit of a date input sets that date only. *)
C20_InitOncePerTransition ==
    [][/\ Len(externalData) = 0 /\ Len(externalData') > 0 =>
             IsMinMaxRange(dateRange', externalData')
       /\ Len(externalData) > 0 /\ externalData' # externalData => dateRange' = dateRange
       /\ \A value \in DateChoices :
             /\ SetStart(value) => dateRange' = [dateRange EXCEPT !.start = value]
             /\ SetEnd(value) => dateRange' = [dateRange EXCEPT !.end = value]]_vars

----------------------------------------------------------------------------
\* a call of fetchData or handleSaveData has started and has not returned
InFlight == \E i \in DOMAIN tasks : tasks[i].op \in {"fetchData", "handleSaveData"}

(* C21: the loading flag is true exactly while a load or a save is in
   flight: in every state with a pending fetchData or handleSaveData
   isLoading is true (the submit and the refresh button, disabled by it,
   start nothing then), and in every state without one it is false. *)
C21_LoadingWhileInFlight ==
    /\ InFlight => isLoading
    /\ ~InFlight => ~isLoading

\* a save is in flight, in the load that follows its write, and the flag is
\* set
C21_Witness ==
    /\ isLoading
    /\ \E i \in DOMAIN tasks : tasks[i].op = "handleSaveData" /\ tasks[i].pc = "fetch"

----------------------------------------------------------------------------
RECURSIVE CategorySum(_, _)
\* the sum of a bucket's entries over a set of categories
CategorySum(bucket, cats) ==
    IF cats = {} THEN 0
    ELSE LET c == CHOOSE x \in cats : TRUE
         IN  bucket[c] + CategorySum(bucket, cats \ {c})

(* C22: in every view model the amounts of the trend buckets, the totals of
   the category breakdown and totalSales have the same sum, the quantities
   of the trend buckets sum to totalQty, and with the category breakdown on
   the category entries of each bucket sum to the amount of the bucket. *)
C22_Conservation ==
    HasView =>
        /\ Total(processedData.trendData, "amount") = processedData.totalSales
        /\ Total(processedData.categoryData, "value") = processedData.totalSales
        /\ Total(processedData.trendData, "qty") = processedData.totalQty
        /\ isGroupByCategory =>
              \A i \in DOMAIN processedData.trendData :
                  CategorySum(processedData.trendData[i], allCategories(externalData))
                      = processedData.trendData[i]["amount"]

============================================================================
